---------------------------- MODULE Spec2Model ----------------------------
(***************************************************************************)
(* The message codec of dsu_protocol (src/src/lib.rs): byte buffers, the   *)
(* typed setters and getters generated over them, the six constructors,    *)
(* update_crc, RequestControllerInfo's slot list, and the dispatching      *)
(* parsers MessageRef::parse and MessageMut::parse_mut.                    *)
(*                                                                         *)
(* Representation.  A buffer is a sequence of bytes; Rust offset k is      *)
(* index k+1.  u8, u16 and i32 values are integers.  A u32 does not fit    *)
(* TLC's integers, so a u32 is written as its four base-256 digits, most   *)
(* significant first (0x43555344 is <<67, 85, 83, 68>>), and a u64 as its  *)
(* eight digits; to_le_bytes / from_le_bytes reverse the digits.           *)
(* A call returns <<tag, val, buf>>: tag "Ok", "Err" (val is the error, a    *)
(* tuple headed by the variant's name) or "Panic" (a failed slice index or *)
(* unwrap); buf is the buffer the call leaves behind.                      *)
(***************************************************************************)
EXTENDS Integers, Sequences, FiniteSets, TLC

VARIABLES buf, given, log, last

vars == <<buf, given, log, last>>

---------------------------------------------------------------------------
(* Slices *)

\* &b[lo..hi] is in bounds (otherwise the index expression panics)
RangeOk(b, lo, hi) == lo <= hi /\ hi <= Len(b)

\* &b[lo..hi], for a range that is in bounds
Slice(b, lo, hi) == SubSeq(b, lo + 1, hi)

\* b[lo..lo+len(bytes)].copy_from_slice(bytes)
CopyFromSlice(b, lo, bytes) ==
    [i \in 1..Len(b) |->
        IF i > lo /\ i <= lo + Len(bytes) THEN bytes[i - lo] ELSE b[i]]

\* <&[u8; n]>::try_from(slice) succeeds exactly on a slice of n bytes
TryIntoArray(s, n) == Len(s) = n

\* [0; size]
Zeroed(size) == [i \in 1..size |-> 0]

Ok(v, b) == <<"Ok", v, b>>
Err(e, b) == <<"Err", e, b>>
Panic(b) == <<"Panic", <<"panic">>, b>>

Tag(r) == r[1]
Val(r) == r[2]
Buf(r) == r[3]

---------------------------------------------------------------------------
(* Integer encodings *)

U8ToLe(v) == <<v>>
U8FromLe(s) == s[1]

U16ToLe(v) == <<v % 256, (v \div 256) % 256>>
U16FromLe(s) == s[1] + 256 * s[2]

I32ToLe(v) ==
    <<v % 256, (v \div 256) % 256, (v \div 65536) % 256, (v \div 16777216) % 256>>
I32FromLe(s) ==
    s[1] + 256 * s[2] + 65536 * s[3]
         + 16777216 * (IF s[4] >= 128 THEN s[4] - 256 ELSE s[4])

U32ToLe(w) == <<w[4], w[3], w[2], w[1]>>
U32FromLe(s) == <<s[4], s[3], s[2], s[1]>>

U32Zero == <<0, 0, 0, 0>>

\* a u64 is its eight base-256 digits, most significant first
U64ToLe(w) == [i \in 1..8 |-> w[9 - i]]
U64FromLe(s) == [i \in 1..8 |-> s[9 - i]]

\* an f32 is its bit pattern, a u32: to_le_bytes is to_bits().to_le_bytes()
F32ToLe(w) == U32ToLe(w)
F32FromLe(s) == U32FromLe(s)

\* size_of::<T>(), T::to_le_bytes and T::from_le_bytes for the $itype and
\* $valtype a field is declared with
SizeOf(ty) ==
    CASE ty = "u8" -> 1
      [] ty = "u16" -> 2
      [] ty \in {"u32", "f32"} -> 4
      [] ty = "u64" -> 8

ToLe(ty, v) ==
    CASE ty = "u8" -> U8ToLe(v)
      [] ty = "u16" -> U16ToLe(v)
      [] ty = "u32" -> U32ToLe(v)
      [] ty = "f32" -> F32ToLe(v)
      [] ty = "u64" -> U64ToLe(v)

FromLe(ty, s) ==
    CASE ty = "u8" -> U8FromLe(s)
      [] ty = "u16" -> U16FromLe(s)
      [] ty = "u32" -> U32FromLe(s)
      [] ty = "f32" -> F32FromLe(s)
      [] ty = "u64" -> U64FromLe(s)

---------------------------------------------------------------------------
(* The caller's hasher.  The codec takes any core::hash::Hasher; the one   *)
(* used here is a streaming 64-bit checksum: its state is the bytes        *)
(* written so far, and finish() sums them with weights 1, i, i^2 (mod      *)
(* 256), so it depends on every byte written, on the order and on how many *)
(* were written; its high half is not zero, so that `finish() as u32`      *)
(* really drops bits.                                                      *)

HasherNew == <<>>

\* hasher.write(s)
HasherWrite(h, s) == h \o s

\* the sum over i in lo..hi of w(i) * (s[i] + 1), mod 256, w(i) being 1, i or
\* i * i for k = 0, 1, 2
RECURSIVE WeightedSum(_, _, _, _)
WeightedSum(s, lo, hi, k) ==
    IF lo > hi THEN 0
    ELSE IF lo = hi
    THEN ((CASE k = 0 -> 1 [] k = 1 -> lo % 256 [] k = 2 -> (lo * lo) % 256)
          * (s[lo] + 1)) % 256
    ELSE LET mid == (lo + hi) \div 2
         IN (WeightedSum(s, lo, mid, k) + WeightedSum(s, mid + 1, hi, k)) % 256

\* hasher.finish(): the u64, most significant digit first
HasherFinish(h) ==
    LET s0 == WeightedSum(h, 1, Len(h), 0)
        s1 == WeightedSum(h, 1, Len(h), 1)
        s2 == WeightedSum(h, 1, Len(h), 2)
    IN <<(s0 + s1 + 1) % 256, (s1 + s2 + 2) % 256, (s0 + s2 + 3) % 256,
         (Len(h) + 4) % 256,
         s2, s1, s0, Len(h) % 256>>

\* `x as u32` of a u64: the low 32 bits
AsU32(x) == <<x[5], x[6], x[7], x[8]>>

---------------------------------------------------------------------------
(* Generated accessors (int_fields!, enum_fields!, sub_fields!) *)

\* int_fields! getter: <T>::from_le_bytes(Buf(self)[lo..hi].try_into().unwrap()),
\* T being `width` bytes wide and Decode its from_le_bytes
IntGet(b, lo, hi, width, Decode(_)) ==
    IF RangeOk(b, lo, hi) /\ TryIntoArray(Slice(b, lo, hi), width)
    THEN Ok(Decode(Slice(b, lo, hi)), b)
    ELSE Panic(b)

\* int_fields! setter: Buf(self)[lo..hi].copy_from_slice(&val.to_le_bytes())
IntSet(b, lo, hi, bytes) ==
    IF RangeOk(b, lo, hi) /\ hi - lo = Len(bytes)
    THEN Ok(<<>>, CopyFromSlice(b, lo, bytes))
    ELSE Panic(b)

\* the first arm `val if val == raw => Ok(variant)` that matches
RECURSIVE EnumMatch(_, _, _)
EnumMatch(table, raw, i) ==
    IF i > Len(table) THEN 0
    ELSE IF table[i][1] = raw THEN i
    ELSE EnumMatch(table, raw, i + 1)

\* the arm `variant => raw` of the setter's match
RECURSIVE EnumArm(_, _, _)
EnumArm(table, variant, i) ==
    IF i > Len(table) THEN 0
    ELSE IF table[i][2] = variant THEN i
    ELSE EnumArm(table, variant, i + 1)

\* enum_fields! getter; Decode is from_le_bytes of the raw type
EnumGet(b, lo, hi, width, Decode(_), table, name) ==
    IF RangeOk(b, lo, hi) /\ TryIntoArray(Slice(b, lo, hi), width)
    THEN LET raw == Decode(Slice(b, lo, hi))
             arm == EnumMatch(table, raw, 1)
         IN IF arm # 0 THEN Ok(table[arm][2], b)
            ELSE Err(<<"Invalid", raw, name>>, b)
    ELSE Panic(b)

\* enum_fields! setter; Encode is to_le_bytes of the raw type
EnumSet(b, lo, hi, Encode(_), table, variant) ==
    LET bytes == Encode(table[EnumArm(table, variant, 1)][1])
    IN IF RangeOk(b, lo, hi) /\ hi - lo = Len(bytes)
       THEN Ok(<<>>, CopyFromSlice(b, lo, bytes))
       ELSE Panic(b)

\* sub_fields! read-only sub-view: Buf(self)[lo..hi].try_into().unwrap(), then
\* F on the view
SubRef(b, lo, hi, size, F(_)) ==
    IF RangeOk(b, lo, hi) /\ TryIntoArray(Slice(b, lo, hi), size)
    THEN LET r == F(Slice(b, lo, hi)) IN <<Tag(r), Val(r), b>>
    ELSE Panic(b)

\* sub_fields! mutable sub-view: the view aliases bytes [lo, hi) of the parent,
\* so what F leaves in the view is what the parent holds there afterwards
SubMut(b, lo, hi, size, F(_)) ==
    IF RangeOk(b, lo, hi) /\ TryIntoArray(Slice(b, lo, hi), size)
    THEN LET r == F(Slice(b, lo, hi))
         IN <<Tag(r), Val(r), CopyFromSlice(b, lo, Buf(r))>>
    ELSE Panic(b)

\* r, and then F on the buffer r left, unless r panicked or returned early
Then(r, F(_)) == IF Tag(r) = "Ok" THEN F(Buf(r)) ELSE r

---------------------------------------------------------------------------
(* Wire constants *)

MAGIC_CLIENT == <<67, 85, 83, 68>>      \* 0x43555344
MAGIC_SERVER == <<83, 85, 83, 68>>      \* 0x53555344

MESSAGE_PROTOCOL == <<0, 16, 0, 0>>     \* 0x100000
MESSAGE_INFO == <<0, 16, 0, 1>>         \* 0x100001
MESSAGE_DATA == <<0, 16, 0, 2>>         \* 0x100002

MagicTable == << <<MAGIC_CLIENT, "Client">>, <<MAGIC_SERVER, "Server">> >>

MessageTypeTable ==
    << <<MESSAGE_PROTOCOL, "ProtocolVersionInfo">>,
       <<MESSAGE_INFO, "ControllerInfo">>,
       <<MESSAGE_DATA, "ControllerData">> >>

ProtocolTable == << <<1001, "Version1001">> >>

StateTable == << <<0, "Disconnected">>, <<1, "Reserved">>, <<2, "Connected">> >>

ModelTable ==
    << <<0, "NotApplicable">>, <<1, "PartialGyro">>, <<2, "FullGyro">>,
       <<3, "Unused">> >>

ConnectionTypeTable ==
    << <<0, "NotApplicable">>, <<1, "Usb">>, <<2, "Bluetooth">> >>

\* the table with one more level, 0x06, decoded as Full
BatteryStatusTable_SevenLevels ==
    << <<0, "NotApplicable">>, <<1, "Dying">>, <<2, "Low">>, <<3, "Medium">>,
       <<4, "High">>, <<5, "Full">>, <<6, "Full">>, <<238, "Charging">>,
       <<239, "Charged">> >>

BatteryStatusTable ==
    << <<0, "NotApplicable">>, <<1, "Dying">>, <<2, "Low">>, <<3, "Medium">>,
       <<4, "High">>, <<5, "Full">>, <<238, "Charging">>, <<239, "Charged">> >>

RegistrationTable ==
    << <<0, "AllControllers">>, <<1, "SlotBased">>, <<2, "MacBased">> >>

---------------------------------------------------------------------------
(* Header: a 20-byte view *)

Header_packet_length(h) == IntGet(h, 6, 8, 2, U16FromLe)
Header_set_packet_length(h, val) == IntSet(h, 6, 8, U16ToLe(val))
Header_crc32(h) == IntGet(h, 8, 12, 4, U32FromLe)
Header_set_crc32(h, val) == IntSet(h, 8, 12, U32ToLe(val))
Header_sender_id(h) == IntGet(h, 12, 16, 4, U32FromLe)
Header_set_sender_id(h, val) == IntSet(h, 12, 16, U32ToLe(val))

Header_magic(h) == EnumGet(h, 0, 4, 4, U32FromLe, MagicTable, "magic")
Header_set_magic(h, val) == EnumSet(h, 0, 4, U32ToLe, MagicTable, val)
Header_message_type(h) ==
    EnumGet(h, 16, 20, 4, U32FromLe, MessageTypeTable, "message_type")
Header_set_message_type(h, val) ==
    EnumSet(h, 16, 20, U32ToLe, MessageTypeTable, val)
Header_protocol(h) == EnumGet(h, 4, 6, 2, U16FromLe, ProtocolTable, "protocol")
Header_set_protocol(h, val) == EnumSet(h, 4, 6, U16ToLe, ProtocolTable, val)

Header_initialize(h, magic, protocol, length, crc32, sender_id, message_type) ==
    Then(Then(Then(Then(Then(
        Header_set_magic(h, magic),
        LAMBDA b1: Header_set_protocol(b1, protocol)),
        LAMBDA b2: Header_set_packet_length(b2, length)),
        LAMBDA b3: Header_set_crc32(b3, crc32)),
        LAMBDA b4: Header_set_sender_id(b4, sender_id)),
        LAMBDA b5: Header_set_message_type(b5, message_type))

\* header() / header_mut() of every message type
header(b, F(_)) == SubRef(b, 0, 20, 20, F)
header_mut(b, F(_)) == SubMut(b, 0, 20, 20, F)

\* update_crc hashing the checksum field as it stands instead of four zeros
update_crc_HashingField(b) ==
    header_mut(b, LAMBDA h:
        Header_set_crc32(h, AsU32(HasherFinish(HasherWrite(HasherNew, b)))))

\* update_crc of the fixed-size message types
update_crc(b) ==
    IF ~RangeOk(b, 0, 8) \/ ~RangeOk(b, 12, Len(b)) THEN Panic(b)
    ELSE LET h1 == HasherWrite(HasherNew, Slice(b, 0, 8))
             h2 == HasherWrite(h1, <<0, 0, 0, 0>>)
             h3 == HasherWrite(h2, Slice(b, 12, Len(b)))
         IN header_mut(b, LAMBDA h: Header_set_crc32(h, AsU32(HasherFinish(h3))))

---------------------------------------------------------------------------
(* RequestProtocolVersionInfo (20 bytes) and ProtocolVersionInfo (22 bytes) *)

RequestProtocolVersionInfo_initialize(b, sender_id) ==
    Then(header_mut(b, LAMBDA h:
            Header_initialize(h, "Client", "Version1001", 20 - 16, U32Zero,
                              sender_id, "ProtocolVersionInfo")),
         LAMBDA b1: update_crc(b1))

RequestProtocolVersionInfo_new(sender_id) ==
    RequestProtocolVersionInfo_initialize(Zeroed(20), sender_id)

\* enum_fields!(ProtocolVersionInfo, protocol set_protocol from u16[(20 + 0)..2])
ProtocolVersionInfo_protocol(b) ==
    EnumGet(b, 20 + 0, 2, 2, U16FromLe, ProtocolTable, "protocol")
ProtocolVersionInfo_set_protocol(b, val) ==
    EnumSet(b, 20 + 0, 2, U16ToLe, ProtocolTable, val)

ProtocolVersionInfo_initialize(b, sender_id, protocol) ==
    Then(Then(
        header_mut(b, LAMBDA h:
            Header_initialize(h, "Server", protocol, 22 - 16, U32Zero,
                              sender_id, "ProtocolVersionInfo")),
        LAMBDA b1: ProtocolVersionInfo_set_protocol(b1, protocol)),
        LAMBDA b2: update_crc(b2))

ProtocolVersionInfo_new(sender_id, protocol) ==
    ProtocolVersionInfo_initialize(Zeroed(22), sender_id, protocol)

---------------------------------------------------------------------------
(* ControllerHeader: an 11-byte view *)

ControllerHeader_slot(c) == IntGet(c, 0, 1, 1, U8FromLe)
ControllerHeader_set_slot(c, val) == IntSet(c, 0, 1, U8ToLe(val))

ControllerHeader_state(c) == EnumGet(c, 1, 2, 1, U8FromLe, StateTable, "state")
ControllerHeader_set_state(c, val) == EnumSet(c, 1, 2, U8ToLe, StateTable, val)
ControllerHeader_model(c) == EnumGet(c, 2, 3, 1, U8FromLe, ModelTable, "model")
ControllerHeader_set_model(c, val) == EnumSet(c, 2, 3, U8ToLe, ModelTable, val)
ControllerHeader_connection_type(c) ==
    EnumGet(c, 3, 4, 1, U8FromLe, ConnectionTypeTable, "connection_type")
ControllerHeader_set_connection_type(c, val) ==
    EnumSet(c, 3, 4, U8ToLe, ConnectionTypeTable, val)
ControllerHeader_battery_status(c) ==
    EnumGet(c, 10, 11, 1, U8FromLe, BatteryStatusTable, "battery_status")
ControllerHeader_set_battery_status(c, val) ==
    EnumSet(c, 10, 11, U8ToLe, BatteryStatusTable, val)

\* mac(): Buf(self)[4..10].try_into().unwrap()
ControllerHeader_mac(c) ==
    IF RangeOk(c, 4, 10) /\ TryIntoArray(Slice(c, 4, 10), 6)
    THEN Ok(Slice(c, 4, 10), c) ELSE Panic(c)

\* *self.mac_mut() = mac
ControllerHeader_set_mac(c, mac) ==
    IF RangeOk(c, 4, 10) /\ TryIntoArray(Slice(c, 4, 10), 6)
    THEN Ok(<<>>, CopyFromSlice(c, 4, mac)) ELSE Panic(c)

ControllerHeader_initialize(c, slot, state, model, connection_type, mac, battery_status) ==
    Then(Then(Then(Then(Then(
        ControllerHeader_set_slot(c, slot),
        LAMBDA b1: ControllerHeader_set_state(b1, state)),
        LAMBDA b2: ControllerHeader_set_model(b2, model)),
        LAMBDA b3: ControllerHeader_set_connection_type(b3, connection_type)),
        LAMBDA b4: ControllerHeader_set_mac(b4, mac)),
        LAMBDA b5: ControllerHeader_set_battery_status(b5, battery_status))

\* controller_header() / controller_header_mut() of ControllerInfo and
\* ControllerData
controller_header(b, F(_)) == SubRef(b, 20, 31, 11, F)
controller_header_mut(b, F(_)) == SubMut(b, 20, 31, 11, F)

---------------------------------------------------------------------------
(* RequestControllerInfo: a view over a slice of any length; the owned     *)
(* buffer has 28 bytes                                                     *)

\* num_slots letting a stored count above 4 through as 4
RequestControllerInfo_num_slots_Clamped(b) ==
    IF Len(b) < 20 + 4 THEN Err(<<"SliceTooSmall">>, b)
    ELSE LET port == I32FromLe(Slice(b, 20, 24))
         IN IF port < 0 THEN Err(<<"InvalidSlotsLength", port>>, b)
            ELSE Ok(IF 4 < port THEN 4 ELSE port, b)

RequestControllerInfo_num_slots(b) ==
    IF Len(b) < 20 + 4 THEN Err(<<"SliceTooSmall">>, b)
    ELSE LET port == I32FromLe(Slice(b, 20, 24))
         IN IF port < 0 \/ 4 < port
            THEN Err(<<"InvalidSlotsLength", port>>, b)
            ELSE Ok(port, b)

\* the same function of the read-only view
RequestControllerInfoRef_num_slots(b) ==
    IF Len(b) < 20 + 4 THEN Err(<<"SliceTooSmall">>, b)
    ELSE LET port == I32FromLe(Slice(b, 20, 24))
         IN IF port < 0 \/ 4 < port
            THEN Err(<<"InvalidSlotsLength", port>>, b)
            ELSE Ok(port, b)

\* slots going on to the slice without looking at the buffer's length
RequestControllerInfo_slots_Unchecked(b) ==
    LET n == RequestControllerInfo_num_slots(b)
    IN IF Tag(n) # "Ok" THEN n
       ELSE IF ~RangeOk(b, 24, 24 + Val(n)) THEN Panic(b)
       ELSE Ok(Slice(b, 24, 24 + Val(n)), b)

\* slots(): &Buf(self)[24..][..port] once the length has been looked at
RequestControllerInfo_slots(b) ==
    LET n == RequestControllerInfo_num_slots(b)
    IN IF Tag(n) # "Ok" THEN n
       ELSE IF Len(b) < 20 + 4 + Val(n) THEN Err(<<"SliceTooSmall">>, b)
       ELSE IF ~RangeOk(b, 24, 24 + Val(n)) THEN Panic(b)
       ELSE Ok(Slice(b, 24, 24 + Val(n)), b)

\* the same function of the read-only view
RequestControllerInfoRef_slots(b) ==
    LET n == RequestControllerInfoRef_num_slots(b)
    IN IF Tag(n) # "Ok" THEN n
       ELSE IF Len(b) < 20 + 4 + Val(n) THEN Err(<<"SliceTooSmall">>, b)
       ELSE IF ~RangeOk(b, 24, 24 + Val(n)) THEN Panic(b)
       ELSE Ok(Slice(b, 24, 24 + Val(n)), b)

\* set_slots letting a list of five slots through
RequestControllerInfo_set_slots_UpToFive(b, slots) ==
    IF Len(slots) < 1 \/ 5 < Len(slots)
    THEN Err(<<"InvalidSlotsLength", Len(slots)>>, b)
    ELSE IF Len(b) < 20 + 4 + Len(slots) THEN Err(<<"SliceTooSmall">>, b)
    ELSE Ok(<<>>, CopyFromSlice(CopyFromSlice(b, 20, I32ToLe(Len(slots))),
                                24, slots))

RequestControllerInfo_set_slots(b, slots) ==
    IF Len(slots) < 1 \/ 4 < Len(slots)
    THEN Err(<<"InvalidSlotsLength", Len(slots)>>, b)
    ELSE IF Len(b) < 20 + 4 + Len(slots) THEN Err(<<"SliceTooSmall">>, b)
    ELSE Ok(<<>>, CopyFromSlice(CopyFromSlice(b, 20, I32ToLe(Len(slots))),
                                24, slots))

RequestControllerInfo_update_crc(b) ==
    LET len == RequestControllerInfo_num_slots(b)
    IN IF Tag(len) # "Ok" THEN len
       ELSE IF ~RangeOk(b, 12, 24 + Val(len)) THEN Panic(b)
       ELSE LET h1 == HasherWrite(HasherNew, Slice(b, 0, 8))
                h2 == HasherWrite(h1, <<0, 0, 0, 0>>)
                h3 == HasherWrite(h2, Slice(b, 12, 24 + Val(len)))
            IN header_mut(b, LAMBDA h:
                   Header_set_crc32(h, AsU32(HasherFinish(h3))))

RequestControllerInfo_initialize(b, sender_id, slots) ==
    LET len == RequestControllerInfo_num_slots(b)
    IN IF Tag(len) # "Ok" THEN len
       ELSE Then(Then(
                header_mut(b, LAMBDA h:
                    Header_initialize(h, "Client", "Version1001",
                                      24 + Val(len) - 16, U32Zero, sender_id,
                                      "ProtocolVersionInfo")),
                LAMBDA b1: RequestControllerInfo_set_slots(b1, slots)),
                LAMBDA b2: RequestControllerInfo_update_crc(b2))

RequestControllerInfo_new_owned(sender_id, slots) ==
    RequestControllerInfo_initialize(Zeroed(28), sender_id, slots)

\* bytes(): &Buf(self)[..28]
RequestControllerInfo_bytes(b) ==
    IF RangeOk(b, 0, 28) THEN Ok(Slice(b, 0, 28), b) ELSE Panic(b)

---------------------------------------------------------------------------
(* ControllerInfo (32 bytes) *)

ControllerInfo_initialize(b, sender_id, slot, state, model, connection_type, mac, battery_status) ==
    Then(Then(
        header_mut(b, LAMBDA h:
            Header_initialize(h, "Server", "Version1001", 32 - 16, U32Zero,
                              sender_id, "ControllerInfo")),
        LAMBDA b1: controller_header_mut(b1, LAMBDA c:
            ControllerHeader_initialize(c, slot, state, model, connection_type,
                                        mac, battery_status))),
        LAMBDA b2: update_crc(b2))

ControllerInfo_new(sender_id, slot, state, model, connection_type, mac, battery_status) ==
    ControllerInfo_initialize(Zeroed(32), sender_id, slot, state, model,
                              connection_type, mac, battery_status)

---------------------------------------------------------------------------
(* RequestControllerData (28 bytes) *)

RequestControllerData_slot(b) == IntGet(b, 21, 22, 1, U8FromLe)
RequestControllerData_set_slot(b, val) == IntSet(b, 21, 22, U8ToLe(val))
RequestControllerData_registration(b) ==
    EnumGet(b, 20, 21, 1, U8FromLe, RegistrationTable, "registration")
RequestControllerData_set_registration(b, val) ==
    EnumSet(b, 20, 21, U8ToLe, RegistrationTable, val)

RequestControllerData_mac(b) ==
    IF RangeOk(b, 22, 28) /\ TryIntoArray(Slice(b, 22, 28), 6)
    THEN Ok(Slice(b, 22, 28), b) ELSE Panic(b)

RequestControllerData_set_mac(b, mac) ==
    IF RangeOk(b, 22, 28) /\ TryIntoArray(Slice(b, 22, 28), 6)
    THEN Ok(<<>>, CopyFromSlice(b, 22, mac)) ELSE Panic(b)

RequestControllerData_initialize(b, sender_id, registration, slot, mac) ==
    Then(Then(Then(Then(
        header_mut(b, LAMBDA h:
            Header_initialize(h, "Client", "Version1001", 28 - 16, U32Zero,
                              sender_id, "ControllerData")),
        LAMBDA b1: RequestControllerData_set_registration(b1, registration)),
        LAMBDA b2: RequestControllerData_set_slot(b2, slot)),
        LAMBDA b3: RequestControllerData_set_mac(b3, mac)),
        LAMBDA b4: update_crc(b4))

RequestControllerData_new(sender_id, registration, slot, mac) ==
    RequestControllerData_initialize(Zeroed(28), sender_id, registration, slot,
                                     mac)

---------------------------------------------------------------------------
(* ControllerData (100 bytes) *)

\* is_connected(): Buf(self)[31] != 0
ControllerData_is_connected(b) ==
    IF 31 < Len(b) THEN Ok(b[31 + 1] # 0, b) ELSE Panic(b)

\* set_connected(val): Buf(self)[31] = if val { 1 } else { 0 }
ControllerData_set_connected(b, val) ==
    IF 31 < Len(b)
    THEN Ok(<<>>, CopyFromSlice(b, 31, <<IF val THEN 1 ELSE 0>>))
    ELSE Panic(b)

ControllerData_initialize(b, sender_id, slot, state, model, connection_type, mac, battery_status, connected) ==
    Then(Then(Then(
        header_mut(b, LAMBDA h:
            Header_initialize(h, "Server", "Version1001", 100 - 16, U32Zero,
                              sender_id, "ControllerData")),
        LAMBDA b1: controller_header_mut(b1, LAMBDA c:
            ControllerHeader_initialize(c, slot, state, model, connection_type,
                                        mac, battery_status))),
        LAMBDA b2: ControllerData_set_connected(b2, connected)),
        LAMBDA b3: update_crc(b3))

ControllerData_new(sender_id, slot, state, model, connection_type, mac, battery_status, connected) ==
    ControllerData_initialize(Zeroed(100), sender_id, slot, state, model,
                              connection_type, mac, battery_status, connected)

---------------------------------------------------------------------------
(* The fields the macros declare, one row a field:                         *)
(* <<getter, macro, type, first byte, end byte, enum table>>; the setter   *)
(* of a field is set_<getter>, and the name an enum getter reports is the  *)
(* getter's                                                                *)

Header_fields ==
    << <<"packet_length", "int", "u16", 6, 8, <<>>>>,
       <<"crc32", "int", "u32", 8, 12, <<>>>>,
       <<"sender_id", "int", "u32", 12, 16, <<>>>>,
       <<"magic", "enum", "u32", 0, 4, MagicTable>>,
       <<"message_type", "enum", "u32", 16, 20, MessageTypeTable>>,
       <<"protocol", "enum", "u16", 4, 6, ProtocolTable>> >>

ProtocolVersionInfo_fields ==
    << <<"protocol", "enum", "u16", 20 + 0, 2, ProtocolTable>> >>

ControllerHeader_fields ==
    << <<"slot", "int", "u8", 0, 1, <<>>>>,
       <<"state", "enum", "u8", 1, 2, StateTable>>,
       <<"model", "enum", "u8", 2, 3, ModelTable>>,
       <<"connection_type", "enum", "u8", 3, 4, ConnectionTypeTable>>,
       <<"battery_status", "enum", "u8", 10, 11, BatteryStatusTable>> >>

RequestControllerData_fields ==
    << <<"slot", "int", "u8", 21, 22, <<>>>>,
       <<"registration", "enum", "u8", 20, 21, RegistrationTable>> >>

ControllerData_fields ==
    << <<"packet_number", "int", "u32", 32, 36, <<>>>>,
       <<"ps_button", "int", "u8", 38, 39, <<>>>>,
       <<"touch_button", "int", "u8", 39, 40, <<>>>>,
       <<"left_stick_x", "int", "u8", 40, 41, <<>>>>,
       <<"left_stick_y", "int", "u8", 41, 42, <<>>>>,
       <<"right_stick_x", "int", "u8", 42, 43, <<>>>>,
       <<"right_stick_y", "int", "u8", 43, 44, <<>>>>,
       <<"analog_dpad_left", "int", "u8", 44, 45, <<>>>>,
       <<"analog_dpad_down", "int", "u8", 45, 46, <<>>>>,
       <<"analog_dpad_right", "int", "u8", 46, 47, <<>>>>,
       <<"analog_dpad_up", "int", "u8", 47, 48, <<>>>>,
       <<"analog_y", "int", "u8", 48, 49, <<>>>>,
       <<"analog_b", "int", "u8", 49, 50, <<>>>>,
       <<"analog_a", "int", "u8", 50, 51, <<>>>>,
       <<"analog_x", "int", "u8", 51, 52, <<>>>>,
       <<"analog_r1", "int", "u8", 52, 53, <<>>>>,
       <<"analog_l1", "int", "u8", 53, 54, <<>>>>,
       <<"analog_r2", "int", "u8", 54, 55, <<>>>>,
       <<"analog_l2", "int", "u8", 55, 56, <<>>>>,
       <<"motion_timestamp", "int", "u64", 68, 76, <<>>>>,
       <<"accel_x", "int", "f32", 76, 80, <<>>>>,
       <<"accel_y", "int", "f32", 80, 84, <<>>>>,
       <<"accel_z", "int", "f32", 84, 88, <<>>>>,
       <<"gyro_pitch", "int", "f32", 88, 92, <<>>>>,
       <<"gyro_yaw", "int", "f32", 92, 96, <<>>>>,
       <<"gyro_roll", "int", "f32", 96, 100, <<>>>> >>

Touch_fields ==
    << <<"touch_id", "int", "u8", 1, 2, <<>>>>,
       <<"touch_x", "int", "u8", 2, 4, <<>>>>,
       <<"touch_y", "int", "u8", 4, 6, <<>>>> >>

\* the structure types: the size buf_type! gives each, and its fields
StructSize(type) ==
    CASE type = "Header" -> 20
      [] type = "RequestProtocolVersionInfo" -> 20
      [] type = "ProtocolVersionInfo" -> 22
      [] type = "ControllerHeader" -> 11
      [] type = "ControllerInfo" -> 32
      [] type = "RequestControllerData" -> 28
      [] type = "ControllerData" -> 100
      [] type = "Touch" -> 6

Fields(type) ==
    CASE type = "Header" -> Header_fields
      [] type = "ProtocolVersionInfo" -> ProtocolVersionInfo_fields
      [] type = "ControllerHeader" -> ControllerHeader_fields
      [] type = "RequestControllerData" -> RequestControllerData_fields
      [] type = "ControllerData" -> ControllerData_fields
      [] type = "Touch" -> Touch_fields
      [] OTHER -> <<>>

\* the row of the field a getter or setter belongs to
FieldRow(type, name) ==
    Fields(type)[CHOOSE i \in 1..Len(Fields(type)) : Fields(type)[i][1] = name]

\* self.<name>() and self.set_<name>(val), as int_fields! and enum_fields!
\* expand them
FieldGet(type, b, name) ==
    LET row == FieldRow(type, name)
    IN IF row[2] = "int"
       THEN IntGet(b, row[4], row[5], SizeOf(row[3]),
                   LAMBDA s: FromLe(row[3], s))
       ELSE EnumGet(b, row[4], row[5], SizeOf(row[3]),
                    LAMBDA s: FromLe(row[3], s), row[6], row[1])

FieldSet(type, b, name, val) ==
    LET row == FieldRow(type, name)
    IN IF row[2] = "int"
       THEN IntSet(b, row[4], row[5], ToLe(row[3], val))
       ELSE EnumSet(b, row[4], row[5], LAMBDA x: ToLe(row[3], x), row[6], val)

\* the sub-views sub_fields! declares: <<getter, type, first byte, end byte>>;
\* the mutable one is <getter>_mut.  Every message type has the header.
Header_sub_field == <<"header", "Header", 0, 20>>

ControllerInfo_sub_fields ==
    << Header_sub_field, <<"controller_header", "ControllerHeader", 20, 31>> >>

\* touch1 laid over the bytes of touch2
ControllerData_sub_fields_Touch1OverTouch2 ==
    << Header_sub_field,
       <<"controller_header", "ControllerHeader", 20, 31>>,
       <<"touch1", "Touch", 62, 68>>,
       <<"touch2", "Touch", 62, 68>> >>

ControllerData_sub_fields ==
    << Header_sub_field,
       <<"controller_header", "ControllerHeader", 20, 31>>,
       <<"touch1", "Touch", 56, 62>>,
       <<"touch2", "Touch", 62, 68>> >>

SubFields(type) ==
    CASE type = "ControllerInfo" -> ControllerInfo_sub_fields
      [] type = "ControllerData" -> ControllerData_sub_fields
      [] OTHER -> <<Header_sub_field>>

SubFieldRow(type, path) ==
    SubFields(type)[CHOOSE i \in 1..Len(SubFields(type)) :
                        SubFields(type)[i][1] = path]

\* view.<name>() and view.<path>().<name>(), on a read-only view of the type
Get(type, b, path, name) ==
    IF path = "self" THEN FieldGet(type, b, name)
    ELSE LET sub == SubFieldRow(type, path)
         IN SubRef(b, sub[3], sub[4], StructSize(sub[2]),
                   LAMBDA s: FieldGet(sub[2], s, name))

\* view.set_<name>(val) and view.<path>_mut().set_<name>(val), on a mutable
\* view of the type
Set(type, b, path, name, val) ==
    IF path = "self" THEN FieldSet(type, b, name, val)
    ELSE LET sub == SubFieldRow(type, path)
         IN SubMut(b, sub[3], sub[4], StructSize(sub[2]),
                   LAMBDA s: FieldSet(sub[2], s, name, val))

\* clear_analog_buttons leaving l2 as it is
ControllerData_clear_analog_buttons_LeavingL2(b) ==
    Then(Then(Then(Then(Then(Then(Then(Then(Then(Then(
        FieldSet("ControllerData", b, "analog_dpad_left", 0),
        LAMBDA b1: FieldSet("ControllerData", b1, "analog_dpad_down", 0)),
        LAMBDA b2: FieldSet("ControllerData", b2, "analog_dpad_right", 0)),
        LAMBDA b3: FieldSet("ControllerData", b3, "analog_dpad_up", 0)),
        LAMBDA b4: FieldSet("ControllerData", b4, "analog_y", 0)),
        LAMBDA b5: FieldSet("ControllerData", b5, "analog_b", 0)),
        LAMBDA b6: FieldSet("ControllerData", b6, "analog_a", 0)),
        LAMBDA b7: FieldSet("ControllerData", b7, "analog_x", 0)),
        LAMBDA b8: FieldSet("ControllerData", b8, "analog_r1", 0)),
        LAMBDA b9: FieldSet("ControllerData", b9, "analog_l1", 0)),
        LAMBDA b10: FieldSet("ControllerData", b10, "analog_r2", 0))

\* clear_analog_buttons(): the twelve setters, each with 0
ControllerData_clear_analog_buttons(b) ==
    Then(Then(Then(Then(Then(Then(Then(Then(Then(Then(Then(
        FieldSet("ControllerData", b, "analog_dpad_left", 0),
        LAMBDA b1: FieldSet("ControllerData", b1, "analog_dpad_down", 0)),
        LAMBDA b2: FieldSet("ControllerData", b2, "analog_dpad_right", 0)),
        LAMBDA b3: FieldSet("ControllerData", b3, "analog_dpad_up", 0)),
        LAMBDA b4: FieldSet("ControllerData", b4, "analog_y", 0)),
        LAMBDA b5: FieldSet("ControllerData", b5, "analog_b", 0)),
        LAMBDA b6: FieldSet("ControllerData", b6, "analog_a", 0)),
        LAMBDA b7: FieldSet("ControllerData", b7, "analog_x", 0)),
        LAMBDA b8: FieldSet("ControllerData", b8, "analog_r1", 0)),
        LAMBDA b9: FieldSet("ControllerData", b9, "analog_l1", 0)),
        LAMBDA b10: FieldSet("ControllerData", b10, "analog_r2", 0)),
        LAMBDA b11: FieldSet("ControllerData", b11, "analog_l2", 0))

---------------------------------------------------------------------------
(* Dispatch: MessageRef::parse and MessageMut::parse_mut.  Ok carries the  *)
(* variant returned; the view it holds is the buffer that was passed.      *)

\* the two controller-info arms of the match exchanged
MessageRef_match_Exchanged(magic, message_type) ==
    LET m == <<magic, message_type>>
    IN CASE m = <<"Client", "ProtocolVersionInfo">> ->
                <<"RequestProtocolVersionInfo", 20>>
         [] m = <<"Server", "ProtocolVersionInfo">> ->
                <<"ProtocolVersionInfo", 22>>
         [] m = <<"Client", "ControllerInfo">> -> <<"ControllerInfo", 32>>
         [] m = <<"Server", "ControllerInfo">> -> <<"RequestControllerInfo", 0>>
         [] m = <<"Client", "ControllerData">> ->
                <<"RequestControllerData", 28>>
         [] m = <<"Server", "ControllerData">> -> <<"ControllerData", 100>>

\* match (magic, message_type): the variant of the arm taken, and the array
\* size its buf.try_into() asks for (0: the variant takes the slice as it is)
MessageRef_match(magic, message_type) ==
    LET m == <<magic, message_type>>
    IN CASE m = <<"Client", "ProtocolVersionInfo">> ->
                <<"RequestProtocolVersionInfo", 20>>
         [] m = <<"Server", "ProtocolVersionInfo">> ->
                <<"ProtocolVersionInfo", 22>>
         [] m = <<"Client", "ControllerInfo">> -> <<"RequestControllerInfo", 0>>
         [] m = <<"Server", "ControllerInfo">> -> <<"ControllerInfo", 32>>
         [] m = <<"Client", "ControllerData">> ->
                <<"RequestControllerData", 28>>
         [] m = <<"Server", "ControllerData">> -> <<"ControllerData", 100>>

MessageRef_parse(b) ==
    IF ~RangeOk(b, 0, 20) THEN Panic(b)
    ELSE IF ~TryIntoArray(Slice(b, 0, 20), 20) THEN Err(<<"SliceTooSmall">>, b)
    ELSE
    LET hd == Slice(b, 0, 20)
        magic == Header_magic(hd)
        message_type == Header_message_type(hd)
    IN
    IF Tag(magic) = "Panic" \/ Tag(message_type) = "Panic" THEN Panic(b)
    ELSE IF Tag(magic) = "Err" THEN Err(<<"InvalidMagic", Val(magic)[2]>>, b)
    ELSE IF Tag(message_type) = "Err"
    THEN Err(<<"InvalidMessageId", Val(message_type)[2]>>, b)
    ELSE
    LET arm == MessageRef_match(Val(magic), Val(message_type))
    IN
    IF arm[2] # 0 /\ ~TryIntoArray(b, arm[2]) THEN Err(<<"SliceTooSmall">>, b)
    ELSE
    LET bytes == IF arm[1] = "RequestControllerInfo"
                 THEN RequestControllerInfo_bytes(b)
                 ELSE Ok(b, b)
    IN
    IF Tag(bytes) = "Panic" THEN Panic(b)
    ELSE IF ~RangeOk(Val(bytes), 0, 8) \/ ~RangeOk(Val(bytes), 12, Len(Val(bytes)))
    THEN Panic(b)
    ELSE
    LET h1 == HasherWrite(HasherNew, Slice(Val(bytes), 0, 8))
        h2 == HasherWrite(h1, <<0, 0, 0, 0>>)
        h3 == HasherWrite(h2, Slice(Val(bytes), 12, Len(Val(bytes))))
        calc_hash == AsU32(HasherFinish(h3))
        hash == header(b, Header_crc32)
    IN
    IF Tag(hash) = "Panic" THEN Panic(b)
    ELSE IF Val(hash) # calc_hash
    THEN Err(<<"InvalidCrc32", Val(hash), calc_hash>>, b)
    ELSE Ok(arm[1], b)

\* match (magic, message_type) of parse_mut
MessageMut_match(magic, message_type) ==
    LET m == <<magic, message_type>>
    IN CASE m = <<"Client", "ProtocolVersionInfo">> ->
                <<"RequestProtocolVersionInfo", 20>>
         [] m = <<"Server", "ProtocolVersionInfo">> ->
                <<"ProtocolVersionInfo", 22>>
         [] m = <<"Client", "ControllerInfo">> -> <<"RequestControllerInfo", 0>>
         [] m = <<"Server", "ControllerInfo">> -> <<"ControllerInfo", 32>>
         [] m = <<"Client", "ControllerData">> ->
                <<"RequestControllerData", 28>>
         [] m = <<"Server", "ControllerData">> -> <<"ControllerData", 100>>

MessageMut_parse_mut(b) ==
    IF ~RangeOk(b, 0, 20) THEN Panic(b)
    ELSE IF ~TryIntoArray(Slice(b, 0, 20), 20) THEN Err(<<"SliceTooSmall">>, b)
    ELSE
    LET hd == Slice(b, 0, 20)
        magic == Header_magic(hd)
        message_type == Header_message_type(hd)
    IN
    IF Tag(magic) = "Panic" \/ Tag(message_type) = "Panic" THEN Panic(b)
    ELSE IF Tag(magic) = "Err" THEN Err(<<"InvalidMagic", Val(magic)[2]>>, b)
    ELSE IF Tag(message_type) = "Err"
    THEN Err(<<"InvalidMessageId", Val(message_type)[2]>>, b)
    ELSE
    LET arm == MessageMut_match(Val(magic), Val(message_type))
    IN
    IF arm[2] # 0 /\ ~TryIntoArray(b, arm[2]) THEN Err(<<"SliceTooSmall">>, b)
    ELSE
    LET bytes == IF arm[1] = "RequestControllerInfo"
                 THEN RequestControllerInfo_bytes(b)
                 ELSE Ok(b, b)
    IN
    IF Tag(bytes) = "Panic" THEN Panic(b)
    ELSE IF ~RangeOk(Val(bytes), 0, 8) \/ ~RangeOk(Val(bytes), 12, Len(Val(bytes)))
    THEN Panic(b)
    ELSE
    LET h1 == HasherWrite(HasherNew, Slice(Val(bytes), 0, 8))
        h2 == HasherWrite(h1, <<0, 0, 0, 0>>)
        h3 == HasherWrite(h2, Slice(Val(bytes), 12, Len(Val(bytes))))
        calc_hash == AsU32(HasherFinish(h3))
        hash == header(b, Header_crc32)
    IN
    IF Tag(hash) = "Panic" THEN Panic(b)
    ELSE IF Val(hash) # calc_hash
    THEN Err(<<"InvalidCrc32", Val(hash), calc_hash>>, b)
    ELSE Ok(arm[1], b)

---------------------------------------------------------------------------
(* The caller.  buf is the buffer the caller holds; given is the kind and  *)
(* the arguments of the constructor call that produced it (kind "none"     *)
(* for bytes that came off the wire); log lists what was done to the       *)
(* buffer since; last is the latest call: <<tag, val, op, arg>>.           *)

MaxEdits == 1

\* how many typed setters the caller uses on one message
MaxSets == 2

SlotLists ==
    {<<>>, <<9>>, <<0, 1>>, <<3, 2, 1>>, <<1, 2, 3, 4>>, <<1, 2, 3, 4, 5>>}

\* sender_id, slot, state, model, connection_type, mac, battery_status: every
\* variant of every enumeration occurs
ControllerRows ==
    { <<<<0, 0, 0, 1>>, 0, "Disconnected", "NotApplicable", "NotApplicable",
        <<1, 2, 3, 4, 5, 6>>, "NotApplicable">>,
      <<<<0, 0, 0, 1>>, 1, "Reserved", "PartialGyro", "Usb",
        <<1, 2, 3, 4, 5, 6>>, "Dying">>,
      <<<<255, 254, 253, 252>>, 2, "Connected", "FullGyro", "Bluetooth",
        <<255, 0, 0, 0, 0, 171>>, "Low">>,
      <<<<0, 0, 0, 1>>, 3, "Connected", "Unused", "Usb",
        <<255, 0, 0, 0, 0, 171>>, "Medium">>,
      <<<<18, 52, 86, 120>>, 0, "Reserved", "FullGyro", "Bluetooth",
        <<1, 2, 3, 4, 5, 6>>, "High">>,
      <<<<0, 0, 0, 0>>, 0, "Connected", "FullGyro", "Bluetooth",
        <<1, 2, 3, 4, 5, 6>>, "Full">>,
      <<<<255, 254, 253, 252>>, 255, "Reserved", "PartialGyro", "Bluetooth",
        <<0, 0, 0, 0, 0, 0>>, "Charging">>,
      <<<<0, 0, 0, 1>>, 3, "Disconnected", "Unused", "NotApplicable",
        <<255, 255, 255, 255, 255, 255>>, "Charged">> }

\* the rows a ControllerData message is built from, and its connected flag
DataRows ==
    {<<row, row[2] = 0>> :
        row \in {r \in ControllerRows : r[7] \in {"Full", "Charging"}}}

\* sender_id, registration, slot, mac
RequestRows ==
    { <<<<0, 0, 0, 1>>, "AllControllers", 0, <<0, 0, 0, 0, 0, 0>>>>,
      <<<<255, 254, 253, 252>>, "SlotBased", 3, <<1, 2, 3, 4, 5, 6>>>>,
      <<<<18, 52, 86, 120>>, "MacBased", 255, <<255, 0, 0, 0, 0, 171>>>> }

SenderIds == {<<0, 0, 0, 1>>, <<255, 254, 253, 252>>}

\* what a peer may send: magic, protocol version and message type of the
\* header, right and wrong
WireHeaders ==
    { <<MAGIC_CLIENT, 1001, MESSAGE_PROTOCOL>>,
      <<MAGIC_SERVER, 1001, MESSAGE_PROTOCOL>>,
      <<MAGIC_CLIENT, 1001, MESSAGE_INFO>>,
      <<MAGIC_SERVER, 1001, MESSAGE_INFO>>,
      <<MAGIC_CLIENT, 1001, MESSAGE_DATA>>,
      <<MAGIC_SERVER, 1001, MESSAGE_DATA>>,
      <<MAGIC_CLIENT, 1000, MESSAGE_DATA>>,
      <<MAGIC_SERVER, 0, MESSAGE_INFO>>,
      <<<<68, 83, 85, 67>>, 1001, MESSAGE_INFO>>,
      <<MAGIC_CLIENT, 1001, <<0, 16, 0, 3>>>>,
      <<<<0, 0, 0, 0>>, 1001, <<255, 255, 255, 255>>>> }

\* the datagram's length, and the signed count stored at bytes [20, 24)
WireLens == {0, 19, 20, 22, 24, 26, 27, 28, 30, 100}
WireCounts == {-1, 0, 2, 4, 5}

\* the datagram: the header, the count, then filler, cut to len bytes
Datagram(hd, len, count) ==
    LET full == U32ToLe(hd[1]) \o U16ToLe(hd[2]) \o U16ToLe(len % 65536)
                \o <<0, 0, 0, 0>> \o <<1, 0, 0, 0>> \o U32ToLe(hd[3])
                \o I32ToLe(count) \o <<3, 1, 2, 0, 7, 7, 7, 7>>
                \o [i \in 1..68 |-> ((7 * i) % 251) + 1]
    IN SubSeq(full, 1, len)

\* the enumerated body fields, and the byte of the message each one lies in
EnumFields ==
    {"state", "model", "connection_type", "battery_status", "registration"}

EnumOffset(field) ==
    CASE field = "state" -> 20 + 1
      [] field = "model" -> 20 + 2
      [] field = "connection_type" -> 20 + 3
      [] field = "battery_status" -> 20 + 10
      [] field = "registration" -> 20

\* every value a byte can hold, and what the bytes around it hold
RawBytes == 0..255
OtherBytes == {0, 255}

\* a datagram whose enumerated field holds v: a ControllerInfo of 32 bytes,
\* or a RequestControllerData of 28 bytes for the registration; the other
\* body bytes hold other
ProbeDatagram(field, v, other) ==
    LET hd == IF field = "registration"
              THEN <<MAGIC_CLIENT, 1001, MESSAGE_DATA>>
              ELSE <<MAGIC_SERVER, 1001, MESSAGE_INFO>>
        len == IF field = "registration" THEN 28 ELSE 32
        head == U32ToLe(hd[1]) \o U16ToLe(hd[2]) \o U16ToLe(len - 16)
                \o <<0, 0, 0, 0>> \o <<1, 0, 0, 0>> \o U32ToLe(hd[3])
    IN CopyFromSlice(head \o [i \in 1..(len - 20) |-> other],
                     EnumOffset(field), <<v>>)

Kind(g) == g[1]
Args(g) == g[2]
Op(c) == c[3]
Arg(c) == c[4]

NoMessage == <<"none", <<>>>>

Call(op, arg, r) == <<Tag(r), Val(r), op, arg>>

Init ==
    /\ buf = <<>>
    /\ given = NoMessage
    /\ log = <<>>
    /\ last = <<"Ok", <<>>, "none", <<>>>>

\* a constructor call: the caller holds the new message when it returns Ok,
\* and what it held before otherwise
Constructed(kind, args, r) ==
    /\ last' = Call("new", <<kind, args>>, r)
    /\ IF Tag(r) = "Ok"
       THEN buf' = Buf(r) /\ given' = <<kind, args>> /\ log' = <<>>
       ELSE UNCHANGED <<buf, given, log>>

\* the calls that read the buffer and leave it as it is
ReadOps == {"parse", "parse_mut", "num_slots", "slots", "get_enum"}

\* a read is the last thing the caller does with a buffer: the buffer is as
\* it was before the read, so whatever could follow the read can follow the
\* state the read was made in
Resting == last[3] \notin ReadOps

\* the caller holds no buffer yet
Idle == buf = <<>> /\ log = <<>>

NewRequestProtocolVersionInfo ==
    \E sender_id \in SenderIds :
        /\ Resting
        /\ Idle
        /\ Constructed("RequestProtocolVersionInfo", <<sender_id>>,
                       RequestProtocolVersionInfo_new(sender_id))

NewProtocolVersionInfo ==
    \E sender_id \in SenderIds :
        /\ Resting
        /\ Idle
        /\ Constructed("ProtocolVersionInfo", <<sender_id, "Version1001">>,
                       ProtocolVersionInfo_new(sender_id, "Version1001"))

NewRequestControllerInfo ==
    \E sender_id \in {<<0, 0, 0, 1>>}, slots \in SlotLists :
        /\ Resting
        /\ Idle
        /\ Constructed("RequestControllerInfo", <<sender_id, slots>>,
                       RequestControllerInfo_new_owned(sender_id, slots))

NewControllerInfo ==
    \E row \in ControllerRows :
        /\ Resting
        /\ Idle
        /\ Constructed("ControllerInfo", row,
                       ControllerInfo_new(row[1], row[2], row[3], row[4],
                                          row[5], row[6], row[7]))

NewRequestControllerData ==
    \E row \in RequestRows :
        /\ Resting
        /\ Idle
        /\ Constructed("RequestControllerData", row,
                       RequestControllerData_new(row[1], row[2], row[3],
                                                 row[4]))

NewControllerData ==
    \E dr \in DataRows :
        /\ Resting
        /\ Idle
        /\ Constructed("ControllerData", dr[1] \o <<dr[2]>>,
                       ControllerData_new(dr[1][1], dr[1][2], dr[1][3],
                                          dr[1][4], dr[1][5], dr[1][6],
                                          dr[1][7], dr[2]))

\* a datagram arrives; the stored count varies under the header of a
\* RequestControllerInfo
Receive ==
    \E hd \in WireHeaders, len \in WireLens, count \in WireCounts :
        /\ Resting
        /\ Idle
        /\ count = 2 \/ hd = <<MAGIC_CLIENT, 1001, MESSAGE_INFO>>
        /\ buf' = Datagram(hd, len, count)
        /\ given' = NoMessage
        /\ log' = <<>>
        /\ last' = <<"Ok", <<>>, "receive", <<>>>>

\* a datagram arrives whose enumerated field holds any byte; the caller
\* reads it and does not edit it
ReceiveProbe ==
    \E field \in EnumFields, v \in RawBytes, other \in OtherBytes :
        /\ Resting
        /\ Idle
        /\ buf' = ProbeDatagram(field, v, other)
        /\ given' = <<"none", <<field, v>>>>
        /\ log' = <<>>
        /\ last' = <<"Ok", <<>>, "receive", <<>>>>

Probe == Kind(given) = "none" /\ Args(given) # <<>>

\* the header of a received buffer carries the magic and the message type of
\* the message type the caller views it as
Announces(b, view) ==
    /\ Len(b) >= 20
    /\ <<U32FromLe(Slice(b, 0, 4)), U32FromLe(Slice(b, 16, 20))>> =
        CASE view = "RequestProtocolVersionInfo" ->
                 <<MAGIC_CLIENT, MESSAGE_PROTOCOL>>
          [] view = "ProtocolVersionInfo" -> <<MAGIC_SERVER, MESSAGE_PROTOCOL>>
          [] view = "RequestControllerInfo" -> <<MAGIC_CLIENT, MESSAGE_INFO>>
          [] view = "RequestControllerData" -> <<MAGIC_CLIENT, MESSAGE_DATA>>
          [] view = "ControllerInfo" -> <<MAGIC_SERVER, MESSAGE_INFO>>
          [] view = "ControllerData" -> <<MAGIC_SERVER, MESSAGE_DATA>>

\* the caller views as a RequestControllerInfo what it built as one and what
\* it received under the header of one, unless it has used a typed setter on
\* it or the bytes were changed in transit
Viewable ==
    /\ \/ Kind(given) = "RequestControllerInfo"
       \/ given = NoMessage /\ Announces(buf, "RequestControllerInfo")
    /\ \A i \in 1..Len(log) : log[i][1] \notin {"set", "corrupt"}

\* the getter of an enumerated field, through the read-only view of the
\* message type that has the buffer's size:
\* ControllerInfo::from_ref(buf.try_into().unwrap()).controller_header().state()
GetEnum ==
    \E field \in EnumFields :
        /\ Resting
        /\ Len(buf) = (IF field = "registration" THEN 28 ELSE 32)
        /\ last' = Call("get_enum", field,
               CASE field = "state" ->
                        controller_header(buf, ControllerHeader_state)
                 [] field = "model" ->
                        controller_header(buf, ControllerHeader_model)
                 [] field = "connection_type" ->
                        controller_header(buf, ControllerHeader_connection_type)
                 [] field = "battery_status" ->
                        controller_header(buf, ControllerHeader_battery_status)
                 [] field = "registration" ->
                        RequestControllerData_registration(buf))
        /\ UNCHANGED <<buf, given, log>>

\* the calls in log that went through the codec, the typed setters apart
Edits ==
    Len(SelectSeq(log, LAMBDA e: e[1] \notin {"corrupt", "truncate", "set"}))

\* the typed setters in log
Sets == Len(SelectSeq(log, LAMBDA e: e[1] = "set"))

\* the values the caller sets a field to: every variant of an enumeration,
\* and integers whose bytes all differ
ValuesOf(row) ==
    IF row[2] = "enum" THEN {row[6][i][2] : i \in 1..Len(row[6])}
    ELSE CASE row[3] = "u8" -> {165, 7}
           [] row[3] = "u16" -> {4660}
           [] row[3] = "u32" -> {<<18, 52, 86, 120>>}
           [] row[3] = "u64" -> {<<1, 35, 69, 103, 137, 171, 205, 239>>}
           [] row[3] = "f32" -> {<<63, 128, 0, 0>>, <<127, 192, 0, 1>>}

\* the setter calls <<path, field, value>> a view of the type offers, the
\* path being "self" or a sub-view
FieldCalls(path, type) ==
    UNION { {<<path, Fields(type)[i][1], v>> : v \in ValuesOf(Fields(type)[i])} :
            i \in 1..Len(Fields(type)) }

Calls(type) ==
    FieldCalls("self", type)
    \cup UNION { FieldCalls(SubFields(type)[j][1], SubFields(type)[j][2]) :
                 j \in 1..Len(SubFields(type)) }

\* the body setters the caller uses one after another on a message it built
SequencedCalls ==
    { <<"controller_header", "slot", 165>>, <<"controller_header", "slot", 7>>,
      <<"controller_header", "state", "Connected">>,
      <<"self", "registration", "MacBased">>, <<"self", "slot", 7>>,
      <<"self", "packet_number", <<18, 52, 86, 120>>>>,
      <<"self", "analog_a", 165>>,
      <<"touch1", "touch_id", 165>>, <<"touch2", "touch_x", 7>> }

\* the fixed-size message type a buffer of n bytes can be viewed as:
\* T::from_mut(buf.try_into().unwrap())
ViewBySize(n) ==
    CASE n = 20 -> "RequestProtocolVersionInfo"
      [] n = 22 -> "ProtocolVersionInfo"
      [] n = 28 -> "RequestControllerData"
      [] n = 32 -> "ControllerInfo"
      [] n = 100 -> "ControllerData"
      [] OTHER -> "none"

\* a typed setter through the mutable view, and then the field's getter
\* through the read-only one; last holds what the getter returned, or the
\* setter's panic
SetField ==
    /\ Resting
    /\ ViewBySize(Len(buf)) # "none"
    /\ \/ Kind(given) = ViewBySize(Len(buf))
       \/ given = NoMessage /\ Announces(buf, ViewBySize(Len(buf)))
    /\ Sets < MaxSets
    /\ \A i \in 1..Len(log) : log[i][1] = "set"
    /\ \E call \in Calls(ViewBySize(Len(buf))) :
          /\ \/ log = <<>>
             \/ /\ Kind(given) # "none"
                /\ call \in SequencedCalls
                /\ \A i \in 1..Len(log) : log[i][2] \in SequencedCalls
          /\ LET view == ViewBySize(Len(buf))
                 set == Set(view, buf, call[1], call[2], call[3])
                 get == Then(set, LAMBDA b: Get(view, b, call[1], call[2]))
             IN /\ buf' = Buf(set)
                /\ last' = Call("set", call, get)
          /\ log' = Append(log, <<"set", call>>)
    /\ UNCHANGED given

\* ControllerData::from_mut(buf.try_into().unwrap()).clear_analog_buttons()
ClearAnalogButtons ==
    /\ Resting
    /\ Len(buf) = 100
    /\ Sets = 0
    /\ \A i \in 1..Len(log) : log[i][1] # "clear_analog_buttons"
    /\ LET r == ControllerData_clear_analog_buttons(buf)
       IN /\ buf' = Buf(r)
          /\ last' = Call("clear_analog_buttons", <<>>, r)
    /\ log' = Append(log, <<"clear_analog_buttons">>)
    /\ UNCHANGED given

\* one byte of an encoded message changes in transit
Corrupt ==
    \E i \in 0..(Len(buf) - 1) :
        /\ Resting
        /\ Kind(given) # "none"
        /\ log = <<>>
        /\ buf' = CopyFromSlice(buf, i, <<255 - buf[i + 1]>>)
        /\ log' = <<<<"corrupt", i>>>>
        /\ last' = <<"Ok", <<>>, "corrupt", i>>
        /\ UNCHANGED given

\* the caller passes on all but the last byte: &buf[..buf.len() - 1]
Truncate ==
    /\ Resting
    /\ Len(buf) > 0
    /\ Kind(given) # "none"
    /\ log = <<>>
    /\ buf' = SubSeq(buf, 1, Len(buf) - 1)
    /\ log' = <<<<"truncate">>>>
    /\ last' = <<"Ok", <<>>, "truncate", <<>>>>
    /\ UNCHANGED given

\* T::from_mut(buf.try_into().unwrap()).update_crc(hasher), T a fixed-size
\* message type of the buffer's length
UpdateCrc ==
    /\ Resting
    /\ Len(buf) \in {20, 22, 32, 28, 100}
    /\ ~Probe
    /\ Edits < MaxEdits
    /\ LET r == update_crc(buf)
       IN /\ buf' = Buf(r)
          /\ last' = Call("update_crc", <<>>, r)
    /\ log' = Append(log, <<"update_crc">>)
    /\ UNCHANGED given

\* RequestControllerInfo::from_mut(&mut buf).update_crc(hasher)
RequestControllerInfoUpdateCrc ==
    /\ Resting
    /\ Edits < MaxEdits
    /\ Viewable
    /\ LET r == RequestControllerInfo_update_crc(buf)
       IN /\ buf' = Buf(r)
          /\ last' = Call("RequestControllerInfo::update_crc", <<>>, r)
    /\ log' = Append(log, <<"RequestControllerInfo::update_crc">>)
    /\ UNCHANGED given

\* RequestControllerInfo::from_mut(&mut buf).set_slots(slots)
SetSlots ==
    \E slots \in SlotLists :
        /\ Resting
        /\ Edits < MaxEdits
        /\ Viewable
        /\ LET r == RequestControllerInfo_set_slots(buf, slots)
           IN /\ buf' = Buf(r)
              /\ last' = Call("set_slots", slots, r)
        /\ log' = Append(log, <<"set_slots", slots>>)
        /\ UNCHANGED given

\* RequestControllerInfo::from_mut(&mut buf).initialize(sender_id, slots,
\* hasher), on a buffer as it was built or received
RequestControllerInfoInitialize ==
    \E slots \in SlotLists :
        /\ Resting
        /\ Viewable
        /\ log = <<>>
        /\ Len(buf) > 0
        /\ LET r == RequestControllerInfo_initialize(buf, <<0, 0, 0, 1>>, slots)
           IN /\ buf' = Buf(r)
              /\ last' = Call("initialize", slots, r)
        /\ log' = <<<<"initialize", slots>>>>
        /\ UNCHANGED given

\* RequestControllerInfo::from_ref(&buf).num_slots(), or the same of from_mut
NumSlots ==
    \E view \in {"Ref", "Mut"} :
        /\ Resting
        /\ Viewable
        /\ last' = Call("num_slots", view,
                        IF view = "Ref"
                        THEN RequestControllerInfoRef_num_slots(buf)
                        ELSE RequestControllerInfo_num_slots(buf))
        /\ UNCHANGED <<buf, given, log>>

\* RequestControllerInfo::from_ref(&buf).slots(), or the same of from_mut
Slots ==
    \E view \in {"Ref", "Mut"} :
        /\ Resting
        /\ Viewable
        /\ last' = Call("slots", view,
                        IF view = "Ref"
                        THEN RequestControllerInfoRef_slots(buf)
                        ELSE RequestControllerInfo_slots(buf))
        /\ UNCHANGED <<buf, given, log>>

\* MessageRef::parse(&buf, hasher)
Parse ==
    /\ Resting
    /\ last' = Call("parse", <<>>, MessageRef_parse(buf))
    /\ UNCHANGED <<buf, given, log>>

\* MessageMut::parse_mut(&mut buf, hasher)
ParseMut ==
    /\ Resting
    /\ last' = Call("parse_mut", <<>>, MessageMut_parse_mut(buf))
    /\ UNCHANGED <<buf, given, log>>

Next ==
    \/ NewRequestProtocolVersionInfo
    \/ NewProtocolVersionInfo
    \/ NewRequestControllerInfo
    \/ NewControllerInfo
    \/ NewRequestControllerData
    \/ NewControllerData
    \/ Receive
    \/ ReceiveProbe
    \/ GetEnum
    \/ Corrupt
    \/ Truncate
    \/ UpdateCrc
    \/ RequestControllerInfoUpdateCrc
    \/ SetSlots
    \/ SetField
    \/ ClearAnalogButtons
    \/ RequestControllerInfoInitialize
    \/ NumSlots
    \/ Slots
    \/ Parse
    \/ ParseMut

Spec == Init /\ [][Next]_vars

---------------------------------------------------------------------------
(* What the claims speak of *)

IsParse == Op(last) \in {"parse", "parse_mut"}

\* the buffer has come straight from a constructor
Pristine == Kind(given) # "none" /\ log = <<>>

\* the u32 stored little-endian in bytes [8, 12)
StoredCrc(b) == U32FromLe(Slice(b, 8, 12))

\* the low 32 bits of the hash of bytes [0, 8), four zero bytes, bytes [12, end)
ScopeCrc(b, end) ==
    AsU32(HasherFinish(HasherWrite(HasherWrite(HasherWrite(HasherNew,
        Slice(b, 0, 8)), <<0, 0, 0, 0>>), Slice(b, 12, end))))

WireMagic(b) == U32FromLe(Slice(b, 0, 4))
WireProtocol(b) == U16FromLe(Slice(b, 4, 6))
WireLength(b) == U16FromLe(Slice(b, 6, 8))
WireSender(b) == U32FromLe(Slice(b, 12, 16))
WireType(b) == U32FromLe(Slice(b, 16, 20))

KnownMagic(b) == WireMagic(b) \in {MAGIC_CLIENT, MAGIC_SERVER}
KnownType(b) == WireType(b) \in {MESSAGE_PROTOCOL, MESSAGE_INFO, MESSAGE_DATA}

\* the kind a (magic, message type) pair stands for
KindOf(magic, type) ==
    CASE magic = MAGIC_CLIENT /\ type = MESSAGE_PROTOCOL ->
            "RequestProtocolVersionInfo"
      [] magic = MAGIC_SERVER /\ type = MESSAGE_PROTOCOL -> "ProtocolVersionInfo"
      [] magic = MAGIC_CLIENT /\ type = MESSAGE_INFO -> "RequestControllerInfo"
      [] magic = MAGIC_SERVER /\ type = MESSAGE_INFO -> "ControllerInfo"
      [] magic = MAGIC_CLIENT /\ type = MESSAGE_DATA -> "RequestControllerData"
      [] magic = MAGIC_SERVER /\ type = MESSAGE_DATA -> "ControllerData"
      [] OTHER -> "none"

FixedSize(kind) ==
    CASE kind = "RequestProtocolVersionInfo" -> 20
      [] kind = "ProtocolVersionInfo" -> 22
      [] kind = "ControllerInfo" -> 32
      [] kind = "RequestControllerData" -> 28
      [] kind = "ControllerData" -> 100
      [] OTHER -> 0

Got(r) == <<Tag(r), Val(r)>>

\* what the getters of a view of the given kind return, in the order of the
\* constructor's parameters
Getters(kind, b) ==
    LET sender == <<Got(header(b, Header_sender_id))>>
        controller ==
            << Got(controller_header(b, ControllerHeader_slot)),
               Got(controller_header(b, ControllerHeader_state)),
               Got(controller_header(b, ControllerHeader_model)),
               Got(controller_header(b, ControllerHeader_connection_type)),
               Got(controller_header(b, ControllerHeader_mac)),
               Got(controller_header(b, ControllerHeader_battery_status)) >>
    IN CASE kind = "RequestProtocolVersionInfo" -> sender
         [] kind = "ProtocolVersionInfo" ->
                sender \o <<Got(ProtocolVersionInfo_protocol(b))>>
         [] kind = "RequestControllerInfo" ->
                sender \o <<Got(RequestControllerInfo_slots(b))>>
         [] kind = "ControllerInfo" -> sender \o controller
         [] kind = "RequestControllerData" ->
                sender \o << Got(RequestControllerData_registration(b)),
                             Got(RequestControllerData_slot(b)),
                             Got(RequestControllerData_mac(b)) >>
         [] kind = "ControllerData" ->
                sender \o controller \o <<Got(ControllerData_is_connected(b))>>

\* every getter returning the constructor's argument
Returned(args) == [i \in 1..Len(args) |-> <<"Ok", args[i]>>]

\* the constructor's arguments lie in their domains
InDomain(kind, args) ==
    kind = "RequestControllerInfo" => Len(args[2]) \in 1..4

---------------------------------------------------------------------------
(* C1 - C10 *)

\* C1: round trip.  For each of the six kinds and all arguments in their
\* domains the constructor returns a message, MessageRef::parse of its bytes
\* returns Ok with the variant of that kind, and every getter of the view
\* returns the argument the constructor was given.
C1_RoundTrip ==
    /\ Op(last) = "new" /\ InDomain(Arg(last)[1], Arg(last)[2])
           => Tag(last) = "Ok"
    /\ Op(last) = "parse" /\ Pristine
           => /\ Tag(last) = "Ok"
              /\ Val(last) = Kind(given)
              /\ Getters(Kind(given), buf) = Returned(Args(given))

\* C2: parse and parse_mut return a value, Ok or an error, for a buffer of any
\* length and content: they never panic and never index outside the buffer.
C2_ParseNeverPanics == IsParse => Tag(last) # "Panic"

\* the header can be decoded and the buffer has the size the kind asks for
\* (the 24-byte prefix for the variable-length kind)
ChecksPass(b) ==
    /\ Len(b) >= 20
    /\ KnownMagic(b)
    /\ KnownType(b)
    /\ LET kind == KindOf(WireMagic(b), WireType(b))
       IN IF kind = "RequestControllerInfo" THEN Len(b) >= 24
          ELSE Len(b) = FixedSize(kind)

\* C3: parse and parse_mut return Ok only when the u32 stored in bytes [8, 12)
\* equals the low 32 bits of the hash of bytes [0, 8), four zero bytes and
\* bytes [12, end); when the header and size checks pass and the two differ,
\* the result is InvalidCrc32 with expected the stored and calculated the
\* recomputed value.
C3_CrcDecidesParse ==
    IsParse =>
        /\ Tag(last) = "Ok" => StoredCrc(buf) = ScopeCrc(buf, Len(buf))
        /\ ChecksPass(buf) /\ StoredCrc(buf) # ScopeCrc(buf, Len(buf))
               => /\ Tag(last) = "Err"
                  /\ Val(last) = <<"InvalidCrc32", StoredCrc(buf),
                                   ScopeCrc(buf, Len(buf))>>

\* C4: after initialize and after any update_crc on a fixed-size kind, bytes
\* [8, 12) hold the low 32 bits of the hash of bytes [0, 8), four zero bytes
\* and bytes [12, size) of the message as it stands; the value does not depend
\* on what bytes [8, 12) held before (ScopeCrc does not read them), and
\* update_crc changes no byte outside [8, 12).
C4_UpdateCrc ==
    [][ /\ Op(last') = "update_crc"
            => /\ Tag(last') = "Ok"
               /\ Len(buf') = Len(buf)
               /\ StoredCrc(buf') = ScopeCrc(buf, Len(buf))
               /\ \A i \in 1..Len(buf) : i \notin 9..12 => buf'[i] = buf[i]
        /\ Op(last') = "new" /\ Tag(last') = "Ok"
           /\ FixedSize(Arg(last')[1]) # 0
            => /\ Len(buf') = FixedSize(Arg(last')[1])
               /\ StoredCrc(buf') = ScopeCrc(buf', Len(buf')) ]_vars

\* update_crc has replaced a checksum field that had been overwritten
C4_Witness ==
    /\ Op(last) = "update_crc"
    /\ Tag(last) = "Ok"
    /\ Len(log) = 2 /\ log[1][1] = "corrupt" /\ log[1][2] \in 8..11
    /\ StoredCrc(buf) # U32Zero

\* C5: a constructed message of any kind with one byte of its body (offset 20
\* or higher) changed and the checksum not recomputed fails to parse with
\* InvalidCrc32.
C5_CorruptionDetected ==
    /\ IsParse
    /\ Kind(given) # "none"
    /\ Len(log) = 1 /\ log[1][1] = "corrupt" /\ log[1][2] >= 20
    => Tag(last) = "Err" /\ Val(last)[1] = "InvalidCrc32"

\* C6: a constructed message of any kind with its last byte removed fails to
\* parse with the size error SliceTooSmall.
C6_TruncationRejected ==
    /\ IsParse
    /\ Kind(given) # "none"
    /\ log = <<<<"truncate">>>>
    => Tag(last) = "Err" /\ Val(last) = <<"SliceTooSmall">>

\* C7: a buffer whose header protocol version (bytes [4, 6)) is not 1001 is
\* rejected with the unsupported-protocol-version error carrying the raw
\* value, after the magic check and before the message-type check; it never
\* parses Ok.
C7_ProtocolChecked ==
    IsParse /\ Len(buf) >= 20 /\ KnownMagic(buf) /\ WireProtocol(buf) # 1001
    => /\ Tag(last) = "Err"
       /\ Val(last) = <<"UnsupportedProtocolVersion", WireProtocol(buf)>>

\* C8: dispatch is a function of (magic, message type): on a buffer that holds
\* a header, Ok carries the variant that stands for the pair, a magic that is
\* neither constant gives InvalidMagic(raw), and under a known magic a type
\* code that is none of the three constants gives InvalidMessageId(raw).
C8_Dispatch ==
    IsParse /\ Len(buf) >= 20 =>
        /\ Tag(last) = "Ok"
               => /\ KnownMagic(buf) /\ KnownType(buf)
                  /\ Val(last) = KindOf(WireMagic(buf), WireType(buf))
        /\ ~KnownMagic(buf)
               => /\ Tag(last) = "Err"
                  /\ Val(last) = <<"InvalidMagic", WireMagic(buf)>>
        /\ KnownMagic(buf) /\ ~KnownType(buf)
               => /\ Tag(last) = "Err"
                  /\ Val(last) = <<"InvalidMessageId", WireType(buf)>>

\* a received client controller-info datagram has parsed as
\* RequestControllerInfo
C8_Witness ==
    /\ IsParse
    /\ Tag(last) = "Ok"
    /\ Val(last) = "RequestControllerInfo"
    /\ Kind(given) = "none"

\* the family of a kind: the message type its header carries
FamilyOf(kind) ==
    CASE kind \in {"RequestProtocolVersionInfo", "ProtocolVersionInfo"} ->
            MESSAGE_PROTOCOL
      [] kind \in {"RequestControllerInfo", "ControllerInfo"} -> MESSAGE_INFO
      [] kind \in {"RequestControllerData", "ControllerData"} -> MESSAGE_DATA

\* the length of the message built: 24 + n for the variable-length kind
TotalLength(kind, args) ==
    IF kind = "RequestControllerInfo" THEN 24 + Len(args[2])
    ELSE FixedSize(kind)

\* C9: after a successful initialize with sender id s the header holds the
\* client magic for the three request kinds and the server magic for the three
\* response kinds, protocol 1001, packet_length = total length - 16,
\* sender_id = s and the message type of the kind's family.
C9_HeaderWritten ==
    Op(last) = "new" /\ Tag(last) = "Ok" =>
        LET kind == Arg(last)[1]
            args == Arg(last)[2]
        IN /\ WireMagic(buf) =
                  (IF kind \in {"RequestProtocolVersionInfo",
                                "RequestControllerInfo",
                                "RequestControllerData"}
                   THEN MAGIC_CLIENT ELSE MAGIC_SERVER)
           /\ WireProtocol(buf) = 1001
           /\ WireLength(buf) = TotalLength(kind, args) - 16
           /\ WireSender(buf) = args[1]
           /\ WireType(buf) = FamilyOf(kind)

\* C10: set_slots(slots) with a list of length 0 or above 4 returns
\* InvalidSlotsLength carrying that length and leaves the buffer as it was;
\* with a length n in 1..4 and a buffer of at least 24 + n bytes it writes n
\* as a little-endian i32 at [20, 24) and the slots at [24, 24 + n) and
\* changes no other byte.
C10_SetSlots ==
    [][ Op(last') = "set_slots" =>
          LET slots == Arg(last')
              n == Len(slots)
          IN /\ n = 0 \/ n > 4
                    => /\ Tag(last') = "Err"
                       /\ Val(last') = <<"InvalidSlotsLength", n>>
                       /\ buf' = buf
             /\ n \in 1..4 /\ Len(buf) >= 24 + n
                    => /\ Tag(last') = "Ok"
                       /\ Len(buf') = Len(buf)
                       /\ Slice(buf', 20, 24) = <<n, 0, 0, 0>>
                       /\ Slice(buf', 24, 24 + n) = slots
                       /\ \A i \in 1..Len(buf) :
                              i \notin 21..(24 + n) => buf'[i] = buf[i] ]_vars

\* set_slots has written three slots into a 27-byte buffer that held another
\* count
C10_Witness ==
    /\ Op(last) = "set_slots"
    /\ Tag(last) = "Ok"
    /\ Arg(last) = <<3, 2, 1>>
    /\ Len(buf) = 27
    /\ Kind(given) = "none"

---------------------------------------------------------------------------
(* C11 - C15: the variable-length kind *)

\* the signed count stored little-endian in bytes [20, 24)
StoredCount(b) == I32FromLe(Slice(b, 20, 24))

\* C11: num_slots of either view returns InvalidSlotsLength carrying the raw
\* value when the i32 stored at [20, 24) is negative or greater than 4, the
\* size error when the buffer has fewer than 24 bytes, and otherwise the
\* stored value itself: never a count above 4 and never a clamped one.
C11_NumSlotsRange ==
    Op(last) = "num_slots" =>
        /\ Len(buf) < 24
               => Tag(last) = "Err" /\ Val(last) = <<"SliceTooSmall">>
        /\ Len(buf) >= 24 /\ (StoredCount(buf) < 0 \/ StoredCount(buf) > 4)
               => /\ Tag(last) = "Err"
                  /\ Val(last) = <<"InvalidSlotsLength", StoredCount(buf)>>
        /\ Tag(last) # "Panic"
        /\ Tag(last) = "Ok"
               => Val(last) = StoredCount(buf) /\ Val(last) \in 0..4

\* num_slots of the mutable view has refused a stored count of 5
C11_Witness ==
    /\ Op(last) = "num_slots"
    /\ Arg(last) = "Mut"
    /\ Tag(last) = "Err"
    /\ Val(last) = <<"InvalidSlotsLength", 5>>
    /\ Len(buf) = 28

\* C12: a stored count of 0 is refused like every count outside 1..4:
\* num_slots, slots and update_crc of RequestControllerInfo return
\* InvalidSlotsLength(0) and never Ok.
C12_ZeroCountRefused ==
    /\ Op(last) \in {"num_slots", "slots"}
    /\ Len(buf) >= 24
    /\ StoredCount(buf) = 0
    => Tag(last) = "Err" /\ Val(last) = <<"InvalidSlotsLength", 0>>

\* C13: slots of either view returns the bytes [24, 24 + n) when num_slots
\* gives n and the buffer has at least 24 + n bytes, the size error when the
\* buffer is shorter than 24 + n, and the error of num_slots when that fails;
\* it never indexes past the buffer's end.
C13_SlotsBounded ==
    Op(last) = "slots" =>
        LET n == RequestControllerInfo_num_slots(buf)
        IN /\ Tag(last) # "Panic"
           /\ Tag(n) = "Ok" /\ Len(buf) >= 24 + Val(n)
                  => /\ Tag(last) = "Ok"
                     /\ Val(last) = SubSeq(buf, 25, 24 + Val(n))
           /\ Tag(n) = "Ok" /\ Len(buf) < 24 + Val(n)
                  => Tag(last) = "Err" /\ Val(last) = <<"SliceTooSmall">>
           /\ Tag(n) = "Err" => Tag(last) = "Err" /\ Val(last) = Val(n)

\* slots has refused a 26-byte buffer that declares four slots
C13_Witness ==
    /\ Op(last) = "slots"
    /\ Len(buf) = 26
    /\ StoredCount(buf) = 4
    /\ Tag(last) = "Err"
    /\ Val(last) = <<"SliceTooSmall">>

\* C14: initialize takes the count from the slot list: with a list of n in
\* 1..4 slots, on a buffer of at least 28 bytes holding anything, it returns
\* Ok and leaves packet_length = 24 + n - 16 and the stored count n; so does
\* new_owned.
C14_InitializeCount ==
    /\ \/ Op(last) = "initialize" /\ Len(Arg(last)) \in 1..4 /\ Len(buf) >= 28
       \/ /\ Op(last) = "new"
          /\ Arg(last)[1] = "RequestControllerInfo"
          /\ Len(Arg(last)[2][2]) \in 1..4
    => /\ Tag(last) = "Ok"
       /\ WireLength(buf) =
              24 + Len(IF Op(last) = "new" THEN Arg(last)[2][2] ELSE Arg(last))
              - 16
       /\ StoredCount(buf) =
              Len(IF Op(last) = "new" THEN Arg(last)[2][2] ELSE Arg(last))

\* the header and the count of a RequestControllerInfo of n in 1..4 slots
IsRequestControllerInfo(b) ==
    /\ Len(b) >= 24
    /\ WireMagic(b) = MAGIC_CLIENT
    /\ WireType(b) = MESSAGE_INFO
    /\ StoredCount(b) \in 1..4

\* C15: encode and decode hash the same bytes of a RequestControllerInfo, the
\* logical message [0, 24 + n): once update_crc has written the checksum,
\* parse and parse_mut return Ok, on a buffer of exactly 24 + n bytes and on
\* a 28-byte buffer padded beyond 24 + n.
C15_SameScope ==
    /\ IsParse
    /\ log = <<<<"RequestControllerInfo::update_crc">>>>
    /\ IsRequestControllerInfo(buf)
    /\ Len(buf) \in {24 + StoredCount(buf), 28}
    => Tag(last) = "Ok" /\ Val(last) = "RequestControllerInfo"

---------------------------------------------------------------------------
(* C16 - C20: fields *)

\* the raw values an enumerated field is defined for
DefinedRaw(field) ==
    CASE field \in {"state", "connection_type", "registration"} -> 0..2
      [] field = "model" -> 0..3
      [] field = "battery_status" -> (0..5) \cup {238, 239}

TableOf(field) ==
    CASE field = "state" -> StateTable
      [] field = "model" -> ModelTable
      [] field = "connection_type" -> ConnectionTypeTable
      [] field = "battery_status" -> BatteryStatusTable
      [] field = "registration" -> RegistrationTable

\* C16: enum closure.  The getter of each enumerated field (state, model,
\* connection_type, battery_status, registration) returns Ok(variant) exactly
\* when its byte holds a raw value of the field's defined set, whatever the
\* other fields hold, and the variant is the one written as that raw value;
\* for every other byte it returns the validation error carrying the raw byte
\* and the field's own name.
C16_EnumClosure ==
    Op(last) = "get_enum" =>
        LET field == Arg(last)
            raw == buf[EnumOffset(field) + 1]
        IN IF raw \in DefinedRaw(field)
           THEN /\ Tag(last) = "Ok"
                /\ \E i \in 1..Len(TableOf(field)) :
                       TableOf(field)[i] = <<raw, Val(last)>>
           ELSE /\ Tag(last) = "Err"
                /\ Val(last) = <<"Invalid", raw, field>>

\* battery_status has refused 0x06, beside fields that hold no variant
C16_Witness ==
    /\ Op(last) = "get_enum"
    /\ Arg(last) = "battery_status"
    /\ buf[EnumOffset("state") + 1] = 255
    /\ buf[EnumOffset("battery_status") + 1] = 6
    /\ Tag(last) = "Err"

\* C17: clear_analog_buttons sets the twelve analog button levels, bytes
\* [44, 56), to 0 and leaves every other byte of the 100-byte message as it
\* was: the sticks at [40, 44), the touch points, the stored checksum.
C17_ClearAnalogButtons ==
    [][ Op(last') = "clear_analog_buttons" =>
            /\ Tag(last') = "Ok"
            /\ Len(buf') = 100
            /\ \A i \in 1..100 :
                   buf'[i] = IF i \in 45..56 THEN 0 ELSE buf[i] ]_vars

\* the levels of a received message have been cleared; its sticks, its touch
\* points and its checksum are not 0
C17_Witness ==
    /\ Op(last) = "clear_analog_buttons"
    /\ Kind(given) = "none"
    /\ log = <<<<"update_crc">>, <<"clear_analog_buttons">>>>
    /\ Slice(buf, 44, 56) = Zeroed(12)
    /\ \A i \in (41..44) \cup (57..68) : buf[i] # 0
    /\ StoredCrc(buf) # U32Zero

\* the structure a call <<path, field, value>> on a view of the type ends in,
\* and the first byte of that structure within the view
CallType(view, call) ==
    IF call[1] = "self" THEN view ELSE SubFieldRow(view, call[1])[2]

CallBase(view, call) ==
    IF call[1] = "self" THEN 0 ELSE SubFieldRow(view, call[1])[3]

\* the bytes of the view a field occupies: its declared range, which for
\* ProtocolVersionInfo's protocol is [20, 22)
FieldBytes(view, call) ==
    LET row == FieldRow(CallType(view, call), call[2])
        base == CallBase(view, call)
    IN IF view = "ProtocolVersionInfo" /\ call[1] = "self" THEN <<20, 22>>
       ELSE <<base + row[4], base + row[5]>>

\* the little-endian encoding of the value set, as wide as the field
Encoded(view, call) ==
    LET row == FieldRow(CallType(view, call), call[2])
        raw == IF row[2] = "enum"
               THEN row[6][EnumArm(row[6], call[3], 1)][1]
               ELSE call[3]
        le == ToLe(row[3], raw)
        width == FieldBytes(view, call)[2] - FieldBytes(view, call)[1]
    IN [i \in 1..width |-> IF i <= Len(le) THEN le[i] ELSE 0]

\* C18: for every typed field of every structure, the setter with a value v
\* followed by the getter returns v without panicking, and the bytes of the
\* field's range hold the little-endian encoding of v at the field's full
\* width.
C18_SetThenGet ==
    Op(last) = "set" =>
        LET view == ViewBySize(Len(buf))
            call == Arg(last)
        IN /\ Tag(last) = "Ok"
           /\ Val(last) = call[3]
           /\ Slice(buf, FieldBytes(view, call)[1], FieldBytes(view, call)[2])
                  = Encoded(view, call)

\* the bytes of the parent a sub-view lies over
SubViewBytes(path) ==
    CASE path = "header" -> <<0, 20>>
      [] path = "controller_header" -> <<20, 31>>
      [] path = "touch1" -> <<56, 62>>
      [] path = "touch2" -> <<62, 68>>

\* C19: a write through header_mut(), controller_header_mut(), touch1_mut()
\* or touch2_mut() changes no byte of the parent outside [0, 20), [20, 31),
\* [56, 62), [62, 68) respectively, and is seen at the same offsets by the
\* parent's read-only sub-view afterwards.
C19_SubViewAliases ==
    [][ Op(last') = "set" /\ Arg(last')[1] # "self" =>
            LET call == Arg(last')
                view == ViewBySize(Len(buf))
                range == SubViewBytes(call[1])
            IN /\ Len(buf') = Len(buf)
               /\ \A i \in 1..Len(buf) :
                      i \notin (range[1] + 1)..range[2] => buf'[i] = buf[i]
               /\ FieldBytes(view, call)[1] >= range[1]
               /\ FieldBytes(view, call)[2] <= range[2]
               /\ Tag(last') = "Ok" =>
                      /\ Val(last') = call[3]
                      /\ Slice(buf', FieldBytes(view, call)[1],
                               FieldBytes(view, call)[2]) = Encoded(view, call)
      ]_vars

\* the id of the first touch point of a ControllerData has been written
\* through touch1_mut() and read back through touch1()
C19_Witness ==
    /\ Op(last) = "set"
    /\ Arg(last) = <<"touch1", "touch_id", 165>>
    /\ Tag(last) = "Ok"
    /\ Kind(given) = "ControllerData"
    /\ buf[57 + 1] = 165

\* the log is body setters followed by one update_crc
SetThenUpdateCrc ==
    /\ Len(log) >= 2
    /\ log[Len(log)] = <<"update_crc">>
    /\ \A i \in 1..(Len(log) - 1) :
           log[i][1] = "set" /\ log[i][2][1] # "header"

\* C20: setters do not refresh the checksum and update_crc restores it.  A
\* message of every fixed-size kind can be built; on it every body setter
\* returns; and after any sequence of body setters and one update_crc, parse
\* returns Ok with the kind the message was built as and the getters return
\* the values set last.
C20_UpdateCrcRestores ==
    /\ Op(last) = "new" /\ FixedSize(Arg(last)[1]) # 0 => Tag(last) = "Ok"
    /\ Op(last) = "set" /\ Kind(given) # "none" /\ Arg(last)[1] # "header"
           => Tag(last) # "Panic"
    /\ IsParse /\ FixedSize(Kind(given)) # 0 /\ SetThenUpdateCrc
           => /\ Tag(last) = "Ok"
              /\ Val(last) = Kind(given)
              /\ \A i \in 1..(Len(log) - 1) :
                     (\A j \in (i + 1)..(Len(log) - 1) :
                          <<log[j][2][1], log[j][2][2]>>
                              # <<log[i][2][1], log[i][2][2]>>)
                     => Got(Get(Kind(given), buf, log[i][2][1], log[i][2][2]))
                            = <<"Ok", log[i][2][3]>>

===========================================================================
